---- MODULE Spec2Model ----
(***************************************************************************)
(* devpt-org/estirador: UsersService (login, signup, verification,         *)
(* resend of the verification link) over the users and                     *)
(* signup-verification-tokens tables.  Every flow of the service runs in   *)
(* connection.transaction(...): its writes are buffered in the             *)
(* transaction and reach the tables when the callback returns; a throw in  *)
(* the callback rolls the transaction back.  Each await of a flow is one   *)
(* step of the model, so transactions of different clients interleave.     *)
(***************************************************************************)
EXTENDS Integers, Sequences, FiniteSets, TLC

\* ---------------------------------------------------------------- bounds
\* identifiers generateUniqueUUID may hand out
MaxIds == 4
\* calls of emailService.sendEmail by one client's calls, one after the other
MaxMails == 2
\* calls of emailService.sendEmail by the interleaved calls of all clients
MaxMailsInterleaved == 3
\* ticks of the wall clock
MaxTime == 1
\* entities the calls of a SimpleEntityRepository create
MaxCreated == 2
\* rows a table may hold beyond the page size of find
MaxRowsBeyondLimit == 2

\* ---------------------------------------------------------------- inputs
Clients == {"c1", "c2"}
Emails == {"a@x", "b@x"}
Passwords == {"pw1", "pw2"}
Salts == {"s1", "s2"}
Hostnames == {"http://h"}
\* token identifiers a caller may present: every identifier that can exist
TokenIdInputs == {"id" \o ToString(n) : n \in 1..MaxIds}

\* ------------------------------------------------------------- primitives
\* generateUniqueUUID(): the n-th identifier handed out
generateUniqueUUID(n) == "id" \o ToString(n)

\* bcrypt.hash(password, salt): the digest carries the salt and is
\* injective in the password for a given salt
bcryptHash(password, salt) == "$" \o salt \o "$" \o password

\* Role.EndUser
RoleEndUser == "end-user"

\* the lifetime of a verification token, in ticks of the clock
USERS_SIGNUP_VERIFICATION_TTL == 1

\* the link without its "/verify/" segment
VerificationLinkNoSegment(hostname, tokenId) == hostname \o "/" \o tokenId

\* `${hostname}/verify/${token.id}`
VerificationLink(hostname, tokenId) == hostname \o "/verify/" \o tokenId

\* the HTML body sendVerificationLinkEmail builds around the link
EmailBody(verificationLink) ==
    "<p>Click or copy this link to verify your newly created account: <a href=\""
        \o verificationLink \o "\" target=\"_blank\">" \o verificationLink \o "</a></p>"

VARIABLES
    users,    \* committed rows of the users table
    tokens,   \* committed rows of the signup-verification-tokens table
    nextId,   \* how many identifiers generateUniqueUUID has handed out, plus one
    now,      \* the wall clock
    outbox,   \* the calls of emailService.sendEmail, in order
    tx,       \* per client: the running call, its transaction and its last result
    tables,   \* per connection and entity class: the rows of the class's table
    answer    \* the latest call of a SimpleEntityRepository and its outcome

\* the state of the generic entity store
storeVars == <<tables, answer>>

vars == <<users, tokens, nextId, now, outbox, tx, storeVars>>

\* ------------------------------------------------------- the transaction
\* a client that runs no call
IdleTx ==
    [pc |-> "idle", op |-> "none", email |-> "", password |-> "", hostname |-> "",
     tokenId |-> "", result |-> "none", user |-> {}, token |-> {}, link |-> "",
     insUsers |-> {}, updUsers |-> {}, insTokens |-> {}, delTokens |-> {}, sent |-> 0]

\* the users table as the transaction of client p reads it: the committed
\* rows overlaid with its own inserts and updates (READ COMMITTED)
UsersView(p) ==
    {u \in users : \A w \in tx[p].updUsers : w.id # u.id}
        \cup tx[p].updUsers \cup tx[p].insUsers

\* the tokens table as the transaction of client p reads it
TokensView(p) ==
    {t \in tokens : t.id \notin tx[p].delTokens} \cup tx[p].insTokens

\* repository.findOne: no row, or one of the matching rows
FindOne(rows) == IF rows = {} THEN {{}} ELSE {{r} : r \in rows}

\* no uniqueness constraint declared on users.email
EmailConstraintNotDeclared(rows, row) == FALSE

\* the uniqueness constraint on users.email: inserting row among rows fails
EmailConstraintViolated(rows, row) == \E u \in rows : u.email = row.email

\* column defaults the users table applies to an inserted entity
UserRow(entity) == entity @@ [isVerified |-> FALSE]

\* the call of client p ends: its result stays readable, its locals go
Return(p, result) ==
    [tx EXCEPT ![p] = [IdleTx EXCEPT !.op = tx[p].op, !.email = tx[p].email,
                                     !.password = tx[p].password,
                                     !.hostname = tx[p].hostname,
                                     !.tokenId = tx[p].tokenId,
                                     !.sent = tx[p].sent,
                                     !.result = result]]

\* the callback threw: the transaction is rolled back and the call rejects
Rollback(p) == Return(p, "error")

\* identifiers and sendEmail calls the running transactions may still use
RECURSIVE SumOver(_, _)
SumOver(S, f) ==
    IF S = {} THEN 0
    ELSE LET x == CHOOSE y \in S : TRUE IN f[x] + SumOver(S \ {x}, f)

IdsReserved ==
    SumOver(Clients, [p \in Clients |->
        CASE tx[p].pc = "signup_create" -> 2
          [] tx[p].pc \in {"signup_token", "resend_token", "resend_delete",
                           "resend_create"} -> 1
          [] OTHER -> 0])

MailsReserved ==
    SumOver(Clients, [p \in Clients |->
        IF tx[p].pc \in {"signup_create", "signup_token", "signup_send",
                         "resend_token", "resend_delete", "resend_create",
                         "resend_send"}
        THEN 1 ELSE 0])

IdsLeft == MaxIds - (nextId - 1) - IdsReserved
MailsLeft(maxMails) == maxMails - Len(outbox) - MailsReserved

\* ------------------------------------------------ SimpleEntityRepository
\* create: the payload's fields copied onto a new entity, under a fresh id
\* that overrides any id of the payload
\* create that lets an id of the payload win over the generated one
SimpleEntityRepositoryCreatePayloadIdWins(entityLikeObject, id) ==
    entityLikeObject @@ [id |-> id]

SimpleEntityRepositoryCreate(entityLikeObject, id) ==
    [id |-> id] @@ entityLikeObject

\* save: the entity's current field values replace the row of its id
SimpleEntityRepositorySave(rows, entity) ==
    {r \in rows : r.id # entity.id} \cup {entity}

\* ------------------------------------ SignupVerificationTokensRepository
\* findTokenById: the token of that id
findTokenById(rows, tokenId) == {t \in rows : t.id = tokenId}

\* findTokenByUser: the live (not yet expired) tokens of the user
findTokenByUser(rows, user, time) ==
    {t \in rows : t.user = user.id /\ t.expires > time}

\* deleteFromUser: every token of the user, live or stale
deleteFromUser(rows, user) == {t \in rows : t.user = user.id}

\* createToken: a token of the user that expires ttl from now
createToken(id, user, ttl, time) ==
    [id |-> id, user |-> user.id, expires |-> time + ttl]

\* ----------------------------------------------------------- UsersService
\* sendVerificationLinkEmail: the sendEmail call it makes
sendVerificationLinkEmail(to, verificationLink, outcome) ==
    [to |-> to, body |-> EmailBody(verificationLink), outcome |-> outcome]

\* what the awaited emailService.sendEmail may do: resolve (the service
\* reads nothing of what it resolves to) or reject
EmailOutcomes == {"sent", "throws"}

\* doCredentialsMatch, after the lookup: hash the password under the stored
\* salt and compare with the stored hash
CredentialsResult(user, password) ==
    IF user = {} THEN "dont-match"
    ELSE LET u == CHOOSE x \in user : TRUE IN
         IF bcryptHash(password, u.passwordSalt) = u.passwordHash
         THEN "match" ELSE "dont-match"

\* a response that carries the account looked up whatever the result
CredentialsAccountLeaked(result, user) == user

\* the account in the response: {result: 'match', user} carries it,
\* {result: 'dont-match'} has no user property
CredentialsAccount(result, user) == IF result = "match" THEN user ELSE {}

\* the value doCredentialsMatch resolves to, from the row its lookup found
CredentialsResponse(user, password) ==
    LET result == CredentialsResult(user, password) IN
    [result |-> result, user |-> CredentialsAccount(result, user)]

\* the lookup without isVerified: true in its where
CredentialsLookupAnyAccount(rows, email) ==
    {[passwordHash |-> u.passwordHash, passwordSalt |-> u.passwordSalt] :
        u \in {x \in rows : x.email = email}}

\* doCredentialsMatch's lookup: where {email, isVerified: true},
\* select passwordHash and passwordSalt
CredentialsLookup(rows, email) ==
    {[passwordHash |-> u.passwordHash, passwordSalt |-> u.passwordSalt] :
        u \in {x \in rows : x.email = email /\ x.isVerified = TRUE}}

\* the two early returns of signup swapped
SignupBranchSwapped(doesExist) ==
    IF doesExist # {}
    THEN IF (CHOOSE u \in doesExist : TRUE).isVerified
         THEN "AwaitingVerification" ELSE "AlreadyCreated"
    ELSE "create"

\* signup that stops only at a verified account
SignupBranchVerifiedOnly(doesExist) ==
    IF doesExist # {} /\ (CHOOSE u \in doesExist : TRUE).isVerified
    THEN "AlreadyCreated"
    ELSE "create"

\* signup, after the lookup by email
SignupBranch(doesExist) ==
    IF doesExist # {}
    THEN IF (CHOOSE u \in doesExist : TRUE).isVerified
         THEN "AlreadyCreated" ELSE "AwaitingVerification"
    ELSE "create"

\* signup: the creation payload, the DTO without its password plus the
\* hash, the salt and the role
SignupPayload(email, password, passwordSalt) ==
    [email |-> email,
     passwordHash |-> bcryptHash(password, passwordSalt),
     passwordSalt |-> passwordSalt,
     role |-> RoleEndUser]

\* verifyUser that reports ok for a token it did not find
VerifyBranchOkWhenMissing(token) == IF token = {} THEN "ok" ELSE "verify"

\* verifyUser, after the lookup of the token
VerifyBranch(token) == IF token = {} THEN "not-found" ELSE "verify"

\* resend that answers ok for an email no account has
ResendUserBranchOkWhenMissing(user) == IF user = {} THEN "ok" ELSE "resend"

\* resend that answers not-found for an account already verified
ResendUserBranchUnverifiedOnly(user) ==
    IF user = {} \/ (CHOOSE u \in user : TRUE).isVerified
    THEN "not-found" ELSE "resend"

\* resendSignupVerificationToken, after the lookup of the user
ResendUserBranch(user) == IF user = {} THEN "not-found" ELSE "resend"

\* resend that regenerates the token whether or not it found one
ResendTokenBranchAlwaysRegenerates(token) == "regenerate"

\* resendSignupVerificationToken, after the lookup of the user's token
ResendTokenBranch(token) == IF token = {} THEN "regenerate" ELSE "reuse"

\* verifyUser that leaves the flag as it was
MarkVerifiedForgotten(user) == user

\* verifyUser that flips the flag
MarkVerifiedToggles(user) == [user EXCEPT !.isVerified = ~ @]

\* verifyUser: user.isVerified = true
MarkVerified(user) == [user EXCEPT !.isVerified = TRUE]

\* a call starts: the client's record holds the call and its arguments
Call(p, op, email, password, hostname, tokenId, pc) ==
    [tx EXCEPT ![p] = [IdleTx EXCEPT !.pc = pc, !.op = op, !.email = email,
                                     !.password = password,
                                     !.hostname = hostname,
                                     !.tokenId = tokenId]]

\* ---- doCredentialsMatch(manager, email, password): one read
DoCredentialsMatch(p, email, password) ==
    /\ tx[p].pc = "idle"
    /\ \E user \in FindOne(CredentialsLookup(users, email)) :
         LET response == CredentialsResponse(user, password) IN
         tx' = [tx EXCEPT ![p] =
                  [IdleTx EXCEPT !.op = "doCredentialsMatch", !.email = email,
                                 !.password = password,
                                 !.result = response.result,
                                 !.user = response.user]]
    /\ UNCHANGED <<users, tokens, nextId, now, outbox, storeVars>>

\* ---- signup(auditContext, data, hostname)
\* usersRepository.findOne({where: {email}}), and the two early returns
SignupFind(p, email, password, hostname, maxMails) ==
    /\ tx[p].pc = "idle"
    /\ \E doesExist \in FindOne({u \in users : u.email = email}) :
         LET branch == SignupBranch(doesExist)
             called == Call(p, "signup", email, password, hostname, "", "signup_create")
         IN IF branch = "create"
            THEN /\ IdsLeft >= 2
                 /\ MailsLeft(maxMails) >= 1
                 /\ tx' = called
            ELSE tx' = [called EXCEPT ![p].pc = "idle", ![p].result = branch]
    /\ UNCHANGED <<users, tokens, nextId, now, outbox, storeVars>>

\* bcrypt.genSalt, bcrypt.hash, usersRepository.create
SignupCreateUser(p, salts) ==
    /\ tx[p].pc = "signup_create"
    /\ \E passwordSalt \in salts :
         LET user == SimpleEntityRepositoryCreate(
                         SignupPayload(tx[p].email, tx[p].password, passwordSalt),
                         generateUniqueUUID(nextId))
         IN IF EmailConstraintViolated(UsersView(p), UserRow(user))
            THEN tx' = Rollback(p)
            ELSE tx' = [tx EXCEPT ![p].pc = "signup_token",
                                  ![p].user = {user},
                                  ![p].insUsers = @ \cup {UserRow(user)}]
    /\ nextId' = nextId + 1
    /\ UNCHANGED <<users, tokens, now, outbox, storeVars>>

\* signupVerificationTokensRepository.createToken(user, TTL)
SignupCreateToken(p) ==
    /\ tx[p].pc = "signup_token"
    /\ LET user == CHOOSE u \in tx[p].user : TRUE
           newToken == createToken(generateUniqueUUID(nextId), user,
                                   USERS_SIGNUP_VERIFICATION_TTL, now)
       IN tx' = [tx EXCEPT ![p].pc = "signup_send",
                           ![p].token = {newToken},
                           ![p].link = VerificationLink(tx[p].hostname, newToken.id),
                           ![p].insTokens = @ \cup {newToken}]
    /\ nextId' = nextId + 1
    /\ UNCHANGED <<users, tokens, now, outbox, storeVars>>

\* sendVerificationLinkEmail(user.email, link), awaited inside the callback
SendEmail(p, pcSend, pcCommit, outcomes) ==
    /\ tx[p].pc = pcSend
    /\ \E outcome \in outcomes :
         LET user == CHOOSE u \in tx[p].user : TRUE IN
         /\ outbox' = Append(outbox,
                sendVerificationLinkEmail(user.email, tx[p].link, outcome))
         /\ IF outcome = "throws"
            THEN tx' = [Rollback(p) EXCEPT ![p].sent = @ + 1]
            ELSE tx' = [tx EXCEPT ![p].pc = pcCommit, ![p].sent = @ + 1]
    /\ UNCHANGED <<users, tokens, nextId, now, storeVars>>

SignupSendEmail(p, outcomes) ==
    SendEmail(p, "signup_send", "signup_commit", outcomes)

\* the callback returned: COMMIT, which the uniqueness constraint may refuse
Commit(p, pcCommit, result) ==
    /\ tx[p].pc = pcCommit
    /\ IF \E row \in tx[p].insUsers : EmailConstraintViolated(users, row)
       THEN /\ tx' = Rollback(p)
            /\ UNCHANGED <<users, tokens>>
       ELSE /\ users' = UsersView(p)
            /\ tokens' = TokensView(p)
            /\ tx' = Return(p, result)
    /\ UNCHANGED <<nextId, now, outbox, storeVars>>

SignupCommit(p) == Commit(p, "signup_commit", "Created")

\* ---- verifyUser(auditContext, tokenId)
\* findTokenById(tokenId), with the owning user joined
VerifyFind(p, tokenId) ==
    /\ tx[p].pc = "idle"
    /\ \E token \in FindOne(findTokenById(tokens, tokenId)) :
         LET called == Call(p, "verifyUser", "", "", "", tokenId, "verify_save") IN
         IF VerifyBranch(token) # "verify"
         THEN tx' = [called EXCEPT ![p].pc = "idle",
                                   ![p].result = VerifyBranch(token)]
         ELSE tx' = [called EXCEPT
                       ![p].token = token,
                       ![p].user = {u \in users :
                                      u.id = (CHOOSE t \in token : TRUE).user}]
    /\ UNCHANGED <<users, tokens, nextId, now, outbox, storeVars>>

\* user.isVerified = true; usersRepository.save(auditContext, user)
VerifySave(p) ==
    /\ tx[p].pc = "verify_save"
    /\ LET user == MarkVerified(CHOOSE u \in tx[p].user : TRUE) IN
       tx' = [tx EXCEPT ![p].pc = "verify_delete",
                        ![p].user = {user},
                        ![p].updUsers = SimpleEntityRepositorySave(@, user)]
    /\ UNCHANGED <<users, tokens, nextId, now, outbox, storeVars>>

\* deleteFromUser(user), inside the transaction of client p
DeleteFromUser(p, pcDelete, pcNext) ==
    /\ tx[p].pc = pcDelete
    /\ LET user == CHOOSE u \in tx[p].user : TRUE
           gone == deleteFromUser(TokensView(p), user)
       IN tx' = [tx EXCEPT ![p].pc = pcNext,
                           ![p].insTokens = @ \ gone,
                           ![p].delTokens = @ \cup {t.id : t \in gone}]
    /\ UNCHANGED <<users, tokens, nextId, now, outbox, storeVars>>

VerifyDelete(p) == DeleteFromUser(p, "verify_delete", "verify_commit")

VerifyCommit(p) == Commit(p, "verify_commit", "ok")

\* ---- resendSignupVerificationToken(email, hostname)
\* usersRepository.findOne({where: {email}})
ResendFind(p, email, hostname, maxMails) ==
    /\ tx[p].pc = "idle"
    /\ \E user \in FindOne({u \in users : u.email = email}) :
         LET called == Call(p, "resend", email, "", hostname, "", "resend_token") IN
         IF ResendUserBranch(user) # "resend"
         THEN tx' = [called EXCEPT ![p].pc = "idle",
                                   ![p].result = ResendUserBranch(user)]
         ELSE /\ IdsLeft >= 1
              /\ MailsLeft(maxMails) >= 1
              /\ tx' = [called EXCEPT ![p].user = user]
    /\ UNCHANGED <<users, tokens, nextId, now, outbox, storeVars>>

\* findTokenByUser(user), and the link of the token it found
ResendFindToken(p) ==
    /\ tx[p].pc = "resend_token"
    /\ LET user == CHOOSE u \in tx[p].user : TRUE IN
       \E token \in FindOne(findTokenByUser(TokensView(p), user, now)) :
         IF ResendTokenBranch(token) = "regenerate"
         THEN tx' = [tx EXCEPT ![p].pc = "resend_delete"]
         ELSE tx' = [tx EXCEPT
                       ![p].pc = "resend_send",
                       ![p].token = token,
                       ![p].link = VerificationLink(tx[p].hostname,
                                       (CHOOSE t \in token : TRUE).id)]
    /\ UNCHANGED <<users, tokens, nextId, now, outbox, storeVars>>

ResendDelete(p) == DeleteFromUser(p, "resend_delete", "resend_create")

\* createToken(user, TTL), and the link of the new token
ResendCreateToken(p) ==
    /\ tx[p].pc = "resend_create"
    /\ LET user == CHOOSE u \in tx[p].user : TRUE
           newToken == createToken(generateUniqueUUID(nextId), user,
                                   USERS_SIGNUP_VERIFICATION_TTL, now)
       IN tx' = [tx EXCEPT ![p].pc = "resend_send",
                           ![p].token = {newToken},
                           ![p].link = VerificationLink(tx[p].hostname, newToken.id),
                           ![p].insTokens = @ \cup {newToken}]
    /\ nextId' = nextId + 1
    /\ UNCHANGED <<users, tokens, now, outbox, storeVars>>

ResendSendEmail(p, outcomes) ==
    SendEmail(p, "resend_send", "resend_commit", outcomes)

ResendCommit(p) == Commit(p, "resend_commit", "ok")

\* ---- time passes
Tick ==
    /\ now < MaxTime
    /\ now' = now + 1
    /\ UNCHANGED <<users, tokens, nextId, outbox, tx, storeVars>>

\* ------------------------------------------------ SimpleEntityRepository
\* this.repository is bound to the ambient default connection; a manager
\* passed to a call stands for a transactional unit of its own, whose rows
\* are kept apart from the default connection's
DefaultConnection == "default"
NoManager == "none"
Managers == {"unit"}
Connections == {DefaultConnection} \cup Managers

\* two entity classes, each with a repository of its own: the table of the
\* first has a delete-date column, the table of the second has none
EntityClasses == {"WithDeleteDate", "WithoutDeleteDate"}
Names == {"n1", "n2"}

\* const limit = 50
FindLimit == 50

Min(a, b) == IF a <= b THEN a ELSE b
Max(a, b) == IF a >= b THEN a ELSE b

\* metadata that reports a delete-date column for every class
deleteDateColumnOfEveryClass(EntityClass) == TRUE

\* this.repository.metadata.deleteDateColumn
deleteDateColumn(EntityClass) == EntityClass = "WithDeleteDate"

\* a check that lets every object through
instanceofAnything(entity, EntityClass) == TRUE

\* entity instanceof EntityClass
instanceof(entity, EntityClass) == entity.class = EntityClass

\* a call that keeps to this.repository whatever manager it was given
getRepositoryIgnoringManager(manager) == DefaultConnection

\* options?.manager ? options.manager.getRepository(target) : this.repository
getRepository(manager) ==
    IF manager # NoManager THEN manager ELSE DefaultConnection

\* the object an entity class materialises from a row, and its row
EntityOf(EntityClass, row) == [class |-> EntityClass] @@ row
RowOf(entity) == [k \in DOMAIN entity \ {"class"} |-> entity[k]]

\* a where object: every field it names must equal the row's
Matches(row, where) == \A k \in DOMAIN where : row[k] = where[k]

\* the rows a query selects: soft-deleted rows only under withDeleted
Selected(rows, where, withDeleted) ==
    LET Test(r) == Matches(r, where) /\ (withDeleted \/ r.deletedAt = "null")
    IN SelectSeq(rows, Test)

\* repository.findOne(query): the first row selected, if any
typeormFindOne(rows, query) ==
    LET selected == Selected(rows, query.where, query.withDeleted) IN
    IF selected = <<>> THEN {} ELSE {Head(selected)}

\* repository.findAndCount(options): the page from skip of at most take
\* rows, and the count of all rows selected
typeormFindAndCount(rows, options) ==
    LET selected == Selected(rows, options.where, options.withDeleted)
        total == Len(selected)
    IN <<SubSeq(selected, options.skip + 1,
                Min(total, options.skip + options.take)), total>>

\* repository.save(entity): update the row of that id, or insert it (a
\* column the object does not carry gets its default, deletedAt null)
typeormSave(rows, row) ==
    LET full == row @@ [deletedAt |-> "null"] IN
    IF \E i \in 1..Len(rows) : rows[i].id = row.id
    THEN [i \in 1..Len(rows) |->
            IF rows[i].id = row.id THEN row @@ rows[i] ELSE rows[i]]
    ELSE Append(rows, full)

\* repository.softRemove(entity): set the delete date of the row of that id
typeormSoftRemove(rows, row) ==
    [i \in 1..Len(rows) |->
        IF rows[i].id = row.id THEN [rows[i] EXCEPT !.deletedAt = "date"]
        ELSE rows[i]]

\* repository.remove(entity): delete the row of that id
typeormRemove(rows, row) ==
    LET Test(r) == r.id # row.id IN SelectSeq(rows, Test)

\* find's options with the caller's take, if any, winning over the limit
FindAndCountOptionsTakeOfQuery(query, limit) == query @@ [take |-> limit]

\* {...query, take: limit}
FindAndCountOptions(query, limit) == [take |-> limit] @@ query

\* no table has a row
EmptyTables == [connection \in Connections |-> [c \in EntityClasses |-> <<>>]]

\* find resolved to nothing (the call was not a find)
NoPage == [limit |-> 0, total |-> 0, rows |-> <<>>]

\* a call of the repository of class target, and what it resolved to: the
\* entity of findOne and create, the page of find; thrown when it rejected
Answer(op, target, manager, argument, thrown, entity, page) ==
    [op |-> op, target |-> target, manager |-> manager, argument |-> argument,
     thrown |-> thrown, entity |-> entity, page |-> page]

NoAnswer == Answer("none", "", NoManager, <<>>, FALSE, {}, NoPage)

\* where objects on the id, the queries of findOne
FindOneQueries ==
    {[where |-> [id |-> generateUniqueUUID(n)], withDeleted |-> withDeleted] :
        n \in 1..MaxCreated, withDeleted \in BOOLEAN}

\* creation payloads; an untyped caller may slip an id in
CreationPayloads == {[name |-> "n1"], [id |-> "mine", name |-> "n2"]}

\* the instances of EntityClass a caller that passes manager holds: loaded
\* over the connection it works on, as loaded or renamed since
LoadedEntities(EntityClass, manager) ==
    LET connection == IF manager = NoManager THEN DefaultConnection ELSE manager
        rows == tables[connection][EntityClass]
    IN
    {EntityOf(EntityClass, [rows[i] EXCEPT !.name = n]) :
        i \in 1..Len(rows), n \in Names}

\* instances of the other classes, under the ids this class's rows may have
ForeignEntities(EntityClass) ==
    {[class |-> c, id |-> generateUniqueUUID(n), name |-> "n1",
      deletedAt |-> "null"] :
        c \in EntityClasses \ {EntityClass}, n \in 1..MaxCreated}

\* ---- findOne(query, options)
findOne(EntityClass, query, manager) ==
    /\ LET repository == tables[getRepository(manager)][EntityClass]
           found == typeormFindOne(repository, query)
       IN answer' = Answer("findOne", EntityClass, manager, query, FALSE,
                           {EntityOf(EntityClass, r) : r \in found}, NoPage)
    /\ UNCHANGED <<users, tokens, nextId, now, outbox, tx, tables>>

\* ---- find(query, options)
find(EntityClass, query, manager) ==
    /\ LET repository == tables[getRepository(manager)][EntityClass]
           limit == FindLimit
           results == typeormFindAndCount(repository,
                                          FindAndCountOptions(query, limit))
       IN answer' = Answer("find", EntityClass, manager, query, FALSE, {},
                           [limit |-> limit, total |-> results[2],
                            rows |-> results[1]])
    /\ UNCHANGED <<users, tokens, nextId, now, outbox, tx, tables>>

\* ---- create(entityLikeObject, auditContext, options)
create(EntityClass, entityLikeObject, manager) ==
    /\ nextId <= MaxCreated
    /\ LET repository == getRepository(manager)
           entity == SimpleEntityRepositoryCreate(entityLikeObject,
                                                  generateUniqueUUID(nextId))
       IN /\ tables' = [tables EXCEPT
                          ![repository][EntityClass] = typeormSave(@, entity)]
          /\ answer' = Answer("create", EntityClass, manager, entityLikeObject,
                              FALSE, {EntityOf(EntityClass, entity)}, NoPage)
    /\ nextId' = nextId + 1
    /\ UNCHANGED <<users, tokens, now, outbox, tx>>

\* ---- save(entity, auditContext, options)
save(EntityClass, entity, manager) ==
    /\ IF ~ instanceof(entity, EntityClass)
       THEN /\ answer' = Answer("save", EntityClass, manager, entity, TRUE,
                                {}, NoPage)
            /\ UNCHANGED tables
       ELSE LET repository == getRepository(manager) IN
            /\ tables' = [tables EXCEPT
                 ![repository][EntityClass] = typeormSave(@, RowOf(entity))]
            /\ answer' = Answer("save", EntityClass, manager, entity, FALSE,
                                {}, NoPage)
    /\ UNCHANGED <<users, tokens, nextId, now, outbox, tx>>

\* ---- remove(entity, auditContext, manager)
remove(EntityClass, entity, manager) ==
    /\ IF ~ instanceof(entity, EntityClass)
       THEN /\ answer' = Answer("remove", EntityClass, manager, entity, TRUE,
                                {}, NoPage)
            /\ UNCHANGED tables
       ELSE LET repository == getRepository(manager) IN
            /\ tables' = [tables EXCEPT ![repository][EntityClass] =
                            IF deleteDateColumn(EntityClass)
                            THEN typeormSoftRemove(@, RowOf(entity))
                            ELSE typeormRemove(@, RowOf(entity))]
            /\ answer' = Answer("remove", EntityClass, manager, entity, FALSE,
                                {}, NoPage)
    /\ UNCHANGED <<users, tokens, nextId, now, outbox, tx>>

\* --------------------------------------------------------- specifications
Init ==
    /\ users = {}
    /\ tokens = {}
    /\ nextId = 1
    /\ now = 0
    /\ outbox = <<>>
    /\ tx = [p \in Clients |-> IdleTx]
    /\ tables = EmptyTables
    /\ answer = NoAnswer

Step(p, emails, passwords, salts, tokenIds, outcomes, maxMails) ==
    \/ \E email \in emails, password \in passwords :
           DoCredentialsMatch(p, email, password)
    \/ \E email \in emails, password \in passwords, hostname \in Hostnames :
           SignupFind(p, email, password, hostname, maxMails)
    \/ SignupCreateUser(p, salts)
    \/ SignupCreateToken(p)
    \/ SignupSendEmail(p, outcomes)
    \/ SignupCommit(p)
    \/ \E tokenId \in tokenIds : VerifyFind(p, tokenId)
    \/ VerifySave(p)
    \/ VerifyDelete(p)
    \/ VerifyCommit(p)
    \/ \E email \in emails, hostname \in Hostnames :
           ResendFind(p, email, hostname, maxMails)
    \/ ResendFindToken(p)
    \/ ResendDelete(p)
    \/ ResendCreateToken(p)
    \/ ResendSendEmail(p, outcomes)
    \/ ResendCommit(p)

\* one client: the calls run one after the other
Next ==
    \/ Step("c1", Emails, Passwords, Salts, TokenIdInputs, EmailOutcomes, MaxMails)
    \/ Tick

Spec == Init /\ [][Next]_vars

\* the ids of the stored tokens, and one id that no token has (the first id
\* handed out is an account's): verifyUser with any other id is the same
\* not-found
StoredOrUnknownTokenIds == {t.id : t \in tokens} \cup {generateUniqueUUID(1)}

\* every client: the transactions interleave at their awaits (one email, so
\* that the clients contend for the same account; one password and one salt,
\* which do not decide how transactions interfere; sendEmail resolves, its
\* rejection being a rollback like any other)
ConcurrentNext ==
    \/ \E p \in Clients :
         Step(p, {"a@x"}, {"pw1"}, {"s1"}, StoredOrUnknownTokenIds, {"sent"},
              MaxMailsInterleaved)
    \/ Tick

ConcurrentSpec == Init /\ [][ConcurrentNext]_vars

\* ---- a persistence call rejects
\* the tables with the writes of the transaction of client p kept
WritesKeptUsers(p) == UsersView(p)

\* the tables after the callback of client p threw: connection.transaction
\* rolls back, and none of the transaction's writes reaches them
RolledBackUsers(p) == users

RolledBackTokens(p) == tokens

\* the pcs at which the flow awaits a call of a repository or the commit
PersistencePcs ==
    {"signup_create", "signup_token", "signup_commit",
     "verify_save", "verify_delete", "verify_commit",
     "resend_token", "resend_delete", "resend_create", "resend_commit"}

\* the persistence call client p awaits rejects: the callback throws
PersistenceCallThrows(p) ==
    /\ tx[p].pc \in PersistencePcs
    /\ tx' = Rollback(p)
    /\ users' = RolledBackUsers(p)
    /\ tokens' = RolledBackTokens(p)
    /\ UNCHANGED <<nextId, now, outbox, storeVars>>

\* one client whose persistence calls may reject (one password and one salt)
FaultNext ==
    \/ Step("c1", Emails, {"pw1"}, {"s1"}, TokenIdInputs, EmailOutcomes, MaxMails)
    \/ PersistenceCallThrows("c1")
    \/ Tick

FaultSpec == Init /\ [][FaultNext]_vars

\* ---- the generic entity store
\* the where object that names no field
AnyRow == [k \in {} |-> ""]

\* the queries of find: with or without a where, from several offsets, and
\* with the take an untyped caller may add
FindQueries(wheres, skips, takes) ==
    LET typed == {[where |-> where, skip |-> skip, withDeleted |-> withDeleted] :
                     where \in wheres, skip \in skips, withDeleted \in BOOLEAN}
    IN typed \cup {[take |-> take] @@ query : take \in takes, query \in typed}

\* the calls of the repositories of the entity classes
StoreStep(classes, managers, findQueries) ==
    \/ \E EntityClass \in classes, manager \in managers,
          query \in FindOneQueries :
           findOne(EntityClass, query, manager)
    \/ \E EntityClass \in classes, manager \in managers,
          query \in findQueries :
           find(EntityClass, query, manager)
    \/ \E EntityClass \in classes, manager \in managers,
          entityLikeObject \in CreationPayloads :
           create(EntityClass, entityLikeObject, manager)
    \/ \E EntityClass \in classes, manager \in managers :
         \E entity \in LoadedEntities(EntityClass, manager)
                          \cup ForeignEntities(EntityClass) :
           save(EntityClass, entity, manager)
    \/ \E EntityClass \in classes, manager \in managers :
         \E entity \in LoadedEntities(EntityClass, manager)
                          \cup ForeignEntities(EntityClass) :
           remove(EntityClass, entity, manager)

\* the repositories of both classes, called without a manager
StoreNext ==
    StoreStep(EntityClasses, {NoManager}, FindQueries({AnyRow}, {0}, {}))

StoreSpec == Init /\ [][StoreNext]_vars

\* the repository of one class, called with a manager and without
UnitOfWorkNext ==
    StoreStep({"WithDeleteDate"}, {NoManager} \cup Managers,
              FindQueries({AnyRow}, {0}, {}))

UnitOfWorkSpec == Init /\ [][UnitOfWorkNext]_vars

\* a table of n rows, the first d of them soft-deleted: what n create calls
\* and d remove calls leave
TableOf(n, d) ==
    [i \in 1..n |-> [id |-> generateUniqueUUID(i),
                     name |-> IF i % 2 = 0 THEN "n1" ELSE "n2",
                     deletedAt |-> IF i <= d THEN "date" ELSE "null"]]

\* tables that hold up to some rows more than the page size of find
FindInit ==
    /\ users = {}
    /\ tokens = {}
    /\ now = 0
    /\ outbox = <<>>
    /\ tx = [p \in Clients |-> IdleTx]
    /\ answer = NoAnswer
    /\ \E n \in 0..(FindLimit + MaxRowsBeyondLimit), d \in 0..MaxRowsBeyondLimit :
         /\ d <= n
         /\ nextId = n + 1
         /\ tables = [EmptyTables EXCEPT
                        ![DefaultConnection]["WithDeleteDate"] = TableOf(n, d)]

\* find, with offsets and page sizes around the limit
FindNext ==
    \E query \in FindQueries({AnyRow, [name |-> "n1"]},
                             {0, 1, FindLimit, FindLimit + 1},
                             {1, FindLimit + MaxRowsBeyondLimit}) :
        find("WithDeleteDate", query, NoManager)

FindSpec == FindInit /\ [][FindNext]_vars

\* ------------------------------------------------------------ properties
\* client p starts a call of op in this step
CallStarts(p, op) == tx[p].pc = "idle" /\ tx'[p] # tx[p] /\ tx'[p].op = op

\* the call of client p, a flow of several steps, ends in this step
FlowEnds(p, op) == tx[p].op = op /\ tx[p].pc # "idle" /\ tx'[p].pc = "idle"

TokenIds(rows) == {t.id : t \in rows}

\* the identifiers handed out so far
AllocatedIds == {generateUniqueUUID(n) : n \in 1..(nextId - 1)}

\* the ids of the tokens that running transactions have created
PendingTokenIds == UNION {TokenIds(tx[p].insTokens) : p \in Clients}

\* the latest sendEmail call
LastMail == outbox[Len(outbox)]

\* the body of the mail whose link is linkBaseAddress + "/verify/" + tokenId
BodyWithLink(linkBaseAddress, tokenId) ==
    EmailBody(linkBaseAddress \o "/verify/" \o tokenId)

\* C1: signup for an email that has no account goes on to create; when it
\* returns it returns Created, having added exactly one account with that
\* email, unverified, exactly one token owned by it, and having sent exactly
\* one email, to that address, whose link is linkBaseAddress/verify/<token
\* id>; it ends otherwise only when sendEmail rejected.
C1_SignupCreates ==
    [][\A p \in Clients :
        /\ (CallStarts(p, "signup")
              /\ ~ \E u \in users : u.email = tx'[p].email)
             => tx'[p].pc = "signup_create"
        /\ FlowEnds(p, "signup") =>
             \/ /\ tx[p].pc = "signup_send"
                /\ tx'[p].result = "error"
                /\ Len(outbox') = Len(outbox) + 1
                /\ outbox'[Len(outbox')].outcome = "throws"
             \/ /\ tx[p].pc = "signup_commit"
                /\ tx'[p].result = "Created"
                /\ tx'[p].sent = 1
                /\ outbox' = outbox
                /\ Len(outbox) >= 1
                /\ \E u \in users', t \in tokens' :
                     /\ u \notin users
                     /\ users' = users \cup {u}
                     /\ u.email = tx[p].email
                     /\ u.isVerified = FALSE
                     /\ Cardinality({v \in users' : v.email = tx[p].email}) = 1
                     /\ t \notin tokens
                     /\ tokens' = tokens \cup {t}
                     /\ t.user = u.id
                     /\ LastMail.to = tx[p].email
                     /\ LastMail.body = BodyWithLink(tx[p].hostname, t.id)
      ]_vars

\* a signup returned Created: its account, its token and its mail are there
C1_Witness ==
    /\ tx["c1"].pc = "idle"
    /\ tx["c1"].op = "signup"
    /\ tx["c1"].result = "Created"
    /\ tx["c1"].sent = 1
    /\ \E u \in users, t \in tokens :
         /\ u.email = tx["c1"].email
         /\ ~ u.isVerified
         /\ t.user = u.id
         /\ LastMail.body = BodyWithLink(tx["c1"].hostname, t.id)

\* C2: whatever the interleaving of the transactions, the users table never
\* holds two rows with the same email.
C2_EmailUnique ==
    \A u \in users, v \in users : u.email = v.email => u = v

\* two signups for the same email both read "no existing row" and both sent
\* their mail; one committed, the commit of the other was refused
C2_Witness ==
    /\ tx["c1"].pc = "idle" /\ tx["c1"].op = "signup"
    /\ tx["c2"].pc = "idle" /\ tx["c2"].op = "signup"
    /\ tx["c1"].email = tx["c2"].email
    /\ tx["c1"].result = "Created"
    /\ tx["c2"].result = "error"
    /\ tx["c2"].sent = 1
    /\ \A i \in 1..Len(outbox) : outbox[i].outcome = "sent"

\* C3: when sendEmail fails in signup or resend, the account and the token
\* of that flow are persisted once the call has ended.
C3_EmailFailureKeepsWrites ==
    \A p \in Clients :
        (/\ tx[p].pc = "idle"
         /\ tx[p].op \in {"signup", "resend"}
         /\ tx[p].sent = 1
         /\ LastMail.outcome = "throws")
        => \E u \in users :
             /\ u.email = tx[p].email
             /\ \E t \in tokens : t.user = u.id

\* C4: verifyUser with the id of a stored token goes on to verify and returns
\* ok with the owner verified, no token of the owner left and the id gone;
\* an id that was handed out and is neither a stored token nor one a running
\* transaction has yet to commit never becomes a token again, and verifyUser
\* with an id that is no stored token returns not-found and changes nothing.
C4_VerifyConsumesToken ==
    [][\A p \in Clients :
        /\ (CallStarts(p, "verifyUser") /\ tx'[p].tokenId \in TokenIds(tokens))
             => tx'[p].pc = "verify_save"
        /\ FlowEnds(p, "verifyUser") =>
             /\ tx[p].pc = "verify_commit"
             /\ tx'[p].result = "ok"
             /\ \E t \in tokens :
                  /\ t.id = tx[p].tokenId
                  /\ \E u \in users' : u.id = t.user /\ u.isVerified = TRUE
                  /\ ~ \E r \in tokens' : r.user = t.user
             /\ tx[p].tokenId \notin TokenIds(tokens')
        /\ \A id \in AllocatedIds \ (TokenIds(tokens) \cup PendingTokenIds) :
             id \notin TokenIds(tokens')
        /\ (CallStarts(p, "verifyUser")
              /\ tx'[p].tokenId \in AllocatedIds \ TokenIds(tokens))
             => /\ tx'[p].result = "not-found"
                /\ UNCHANGED <<users, tokens>>
      ]_vars

\* the one token ever created was consumed by a verification, and a second
\* verifyUser with its id returned not-found
C4_Witness ==
    /\ nextId = 3
    /\ tokens = {}
    /\ \E u \in users : u.isVerified
    /\ tx["c1"].pc = "idle"
    /\ tx["c1"].op = "verifyUser"
    /\ tx["c1"].tokenId = generateUniqueUUID(2)
    /\ tx["c1"].result = "not-found"

\* C5: verifyUser with an id that matches no stored token returns not-found
\* and leaves every account, every token and the outbox as they were.
C5_VerifyUnknownToken ==
    [][\A p \in Clients :
        (CallStarts(p, "verifyUser") /\ tx'[p].tokenId \notin TokenIds(tokens))
          => /\ tx'[p].pc = "idle"
             /\ tx'[p].result = "not-found"
             /\ UNCHANGED <<users, tokens, outbox, nextId>>
      ]_vars

\* verifyUser returned not-found for an id that is no token, while an
\* unverified account and its token exist
C5_Witness ==
    /\ tx["c1"].pc = "idle"
    /\ tx["c1"].op = "verifyUser"
    /\ tx["c1"].result = "not-found"
    /\ tx["c1"].tokenId \notin TokenIds(tokens)
    /\ \E u \in users, t \in tokens : t.user = u.id /\ ~ u.isVerified

\* C6: a verified account stays verified in every step; an account becomes
\* verified only in the commit of a verifyUser that returns ok; a new account
\* is unverified.
C6_VerifiedIsTerminal ==
    [][/\ \A u \in users : u.isVerified
            => \E v \in users' : v.id = u.id /\ v.isVerified
       /\ \A v \in users' :
            (v.isVerified /\ ~ \E u \in users : u.id = v.id /\ u.isVerified)
            => /\ \E u \in users : u.id = v.id
               /\ \E p \in Clients :
                    /\ tx[p].op = "verifyUser"
                    /\ tx[p].pc = "verify_commit"
                    /\ tx'[p].result = "ok"
                    /\ v \in tx[p].updUsers
      ]_vars

\* an account is verified, and afterwards a resend for it returned ok and a
\* signup for it returned AlreadyCreated
C6_Witness ==
    /\ \E u \in users : u.isVerified /\ u.email = tx["c1"].email
    /\ tx["c1"].pc = "idle" /\ tx["c1"].op = "resend" /\ tx["c1"].result = "ok"
    /\ tx["c2"].pc = "idle" /\ tx["c2"].op = "signup"
    /\ tx["c2"].result = "AlreadyCreated"
    /\ tx["c2"].email = tx["c1"].email

\* C7: signup for the email of a verified account returns AlreadyCreated at
\* once: no account, no token, no identifier and no mail.
C7_SignupAlreadyCreated ==
    [][\A p \in Clients :
        (CallStarts(p, "signup")
           /\ \E u \in users : u.email = tx'[p].email /\ u.isVerified)
          => /\ tx'[p].pc = "idle"
             /\ tx'[p].result = "AlreadyCreated"
             /\ tx'[p].sent = 0
             /\ UNCHANGED <<users, tokens, outbox, nextId>>
      ]_vars

C7_Witness ==
    /\ tx["c1"].pc = "idle"
    /\ tx["c1"].op = "signup"
    /\ tx["c1"].result = "AlreadyCreated"
    /\ \E u \in users : u.email = tx["c1"].email /\ u.isVerified

\* C8: signup for the email of an unverified account returns
\* AwaitingVerification at once: accounts, tokens and outbox are unchanged.
C8_SignupAwaitingVerification ==
    [][\A p \in Clients :
        (CallStarts(p, "signup")
           /\ \E u \in users : u.email = tx'[p].email /\ ~ u.isVerified)
          => /\ tx'[p].pc = "idle"
             /\ tx'[p].result = "AwaitingVerification"
             /\ tx'[p].sent = 0
             /\ UNCHANGED <<users, tokens, outbox, nextId>>
      ]_vars

C8_Witness ==
    /\ tx["c1"].pc = "idle"
    /\ tx["c1"].op = "signup"
    /\ tx["c1"].result = "AwaitingVerification"
    /\ \E u \in users : u.email = tx["c1"].email /\ ~ u.isVerified

\* the tokens of the account that the resend of client p found
OwnedTokens(p) == {t \in tokens : \E u \in tx[p].user : t.user = u.id}

\* C9, as stated: a resend for an account that has a token, of whatever
\* age, leaves the tokens as they are and mails the id of one of them; for
\* an account with no token it adds exactly one token and mails its id.
C9_ResendAsStated ==
    [][\A p \in Clients :
        (FlowEnds(p, "resend") /\ tx[p].pc = "resend_commit") =>
          IF OwnedTokens(p) # {}
          THEN /\ tokens' = tokens
               /\ \E t \in OwnedTokens(p) :
                    LastMail.body = BodyWithLink(tx[p].hostname, t.id)
          ELSE \E t \in tokens' :
                 /\ t \notin tokens
                 /\ tokens' = tokens \cup {t}
                 /\ LastMail.body = BodyWithLink(tx[p].hostname, t.id)
      ]_vars

\* C9, amended: when the account has a live (unexpired) token at the lookup,
\* resend takes one of them and creates none; when it has none, resend goes
\* on to delete the account's stale tokens and create a token.  The mail it
\* sends goes to the account's address with the link of the token it took or
\* created.  At the commit, a reused token is a stored one and the tokens are
\* unchanged; a created token is the only one added, under a new id, and the
\* only tokens removed are stale tokens of that account.
C9_ResendReusesLiveToken ==
    [][\A p \in Clients :
        /\ (tx[p].pc = "resend_token" /\ tx'[p] # tx[p]) =>
             LET live == {t \in OwnedTokens(p) : t.expires > now} IN
             IF live # {}
             THEN /\ tx'[p].pc = "resend_send"
                  /\ tx'[p].token # {}
                  /\ tx'[p].token \subseteq live
                  /\ tx'[p].insTokens = {}
                  /\ tx'[p].delTokens = {}
             ELSE tx'[p].pc = "resend_delete"
        /\ (tx[p].pc = "resend_send" /\ tx'[p] # tx[p]) =>
             /\ tx'[p].sent = 1
             /\ Len(outbox') = Len(outbox) + 1
             /\ \E u \in tx[p].user, t \in tx[p].token :
                  /\ outbox'[Len(outbox')].to = u.email
                  /\ outbox'[Len(outbox')].body = BodyWithLink(tx[p].hostname, t.id)
        /\ (FlowEnds(p, "resend") /\ tx[p].pc = "resend_commit") =>
             /\ tx'[p].result = "ok"
             /\ outbox' = outbox
             /\ users' = users
             /\ IF tx[p].insTokens = {}
                THEN /\ tokens' = tokens
                     /\ tx[p].token \subseteq tokens
                ELSE \E t \in tokens' :
                       /\ tx[p].token = {t}
                       /\ t.id \notin TokenIds(tokens)
                       /\ \E u \in tx[p].user : t.user = u.id
                       /\ tokens' \ tokens = {t}
                       /\ tokens \ tokens' \subseteq
                            {r \in OwnedTokens(p) : r.expires <= now}
      ]_vars

\* a resend found the account's token expired, replaced it and mailed the
\* link of the new token
C9_Witness ==
    /\ tx["c1"].pc = "idle"
    /\ tx["c1"].op = "resend"
    /\ tx["c1"].result = "ok"
    /\ nextId = 4
    /\ \E u \in users :
         /\ u.email = tx["c1"].email
         /\ {t.id : t \in {r \in tokens : r.user = u.id}} = {generateUniqueUUID(3)}
         /\ LastMail.body = BodyWithLink(tx["c1"].hostname, generateUniqueUUID(3))

\* C10: doCredentialsMatch returns match exactly when a verified account
\* with that email exists whose stored hash is the hash of the supplied
\* password under its stored salt, and then returns that account's hash and
\* salt; in every other case it returns dont-match and no account.
C10_CredentialsMatch ==
    [][\A p \in Clients :
        CallStarts(p, "doCredentialsMatch") =>
          LET matching ==
                {u \in users :
                   /\ u.email = tx'[p].email
                   /\ u.isVerified
                   /\ bcryptHash(tx'[p].password, u.passwordSalt) = u.passwordHash}
          IN /\ tx'[p].pc = "idle"
             /\ tx'[p].result \in {"match", "dont-match"}
             /\ tx'[p].result = "match" <=> matching # {}
             /\ tx'[p].result = "match" =>
                  \E u \in matching :
                    tx'[p].user = {[passwordHash |-> u.passwordHash,
                                    passwordSalt |-> u.passwordSalt]}
             /\ tx'[p].result = "dont-match" => tx'[p].user = {}
             /\ UNCHANGED <<users, tokens, outbox, nextId>>
      ]_vars

\* a login with a verified account's password matched, while an unverified
\* account exists beside it
C10_Witness ==
    /\ tx["c1"].pc = "idle"
    /\ tx["c1"].op = "doCredentialsMatch"
    /\ tx["c1"].result = "match"
    /\ \E u \in users : u.email = tx["c1"].email /\ u.isVerified
    /\ \E u \in users : ~ u.isVerified

\* C11: the tables change only in the step in which a flow commits and
\* returns its result, and then by all of the flow's writes at once; a flow
\* that ends with an error, at whatever step and after whatever writes,
\* leaves users and tokens as they were when it started.
C11_FlowsAreAtomic ==
    [][\A p \in Clients :
        /\ (tx[p].pc # "idle" /\ tx'[p].pc # "idle")
             => UNCHANGED <<users, tokens>>
        /\ (tx[p].pc # "idle" /\ tx'[p].pc = "idle" /\ tx'[p].result = "error")
             => UNCHANGED <<users, tokens>>
        /\ (tx[p].pc # "idle" /\ tx'[p].pc = "idle" /\ tx'[p].result # "error")
             => /\ tx[p].pc \in {"signup_commit", "verify_commit", "resend_commit"}
                /\ \A u \in tx[p].insUsers \cup tx[p].updUsers : u \in users'
                /\ \A t \in tx[p].insTokens : t \in tokens'
                /\ \A id \in tx[p].delTokens : id \notin TokenIds(tokens')
      ]_vars

\* signup created its account, and the token creation that followed was
\* rejected: the call ended with an error and the account is not stored
C11_Witness ==
    /\ tx["c1"].pc = "idle"
    /\ tx["c1"].op = "signup"
    /\ tx["c1"].result = "error"
    /\ tx["c1"].sent = 0
    /\ nextId = 2
    /\ users = {}
    /\ tokens = {}

\* C15: a doCredentialsMatch call that does not match resolves to the very
\* value it resolves to when no account has the email: the result dont-match
\* and no account data, whether a verified account with that email exists
\* (and the password is wrong) or not.
C15_MismatchIndistinguishable ==
    [][\A p \in Clients :
        (CallStarts(p, "doCredentialsMatch") /\ tx'[p].result # "match") =>
          /\ tx'[p].pc = "idle"
          /\ [result |-> tx'[p].result, user |-> tx'[p].user]
               = CredentialsResponse({}, tx'[p].password)
          /\ \A other \in Passwords :
               LET found == CredentialsLookup(users, tx'[p].email)
                   again == CredentialsResponse(found, other)
               IN again.result # "match" =>
                    again = [result |-> tx'[p].result, user |-> tx'[p].user]
      ]_vars

\* a login with a wrong password for a verified account did not match
C15_Witness ==
    /\ tx["c1"].pc = "idle"
    /\ tx["c1"].op = "doCredentialsMatch"
    /\ tx["c1"].result = "dont-match"
    /\ tx["c1"].user = {}
    /\ \E u \in users :
         /\ u.email = tx["c1"].email
         /\ u.isVerified
         /\ bcryptHash(tx["c1"].password, u.passwordSalt) # u.passwordHash

\* C17: resendSignupVerificationToken for an email no account has returns
\* not-found right after the lookup: no token is created or deleted, no
\* email is sent, and no table changes.
C17_ResendUnknownEmail ==
    [][\A p \in Clients :
        (/\ CallStarts(p, "resend")
         /\ \A u \in users : u.email # tx'[p].email) =>
          /\ tx'[p].pc = "idle"
          /\ tx'[p].result = "not-found"
          /\ tx'[p].sent = 0
          /\ tx'[p].insTokens = {} /\ tx'[p].delTokens = {}
          /\ UNCHANGED <<users, tokens, outbox, nextId>>
      ]_vars

\* a resend for an email no account has returned not-found, while another
\* account and its token are stored
C17_Witness ==
    /\ tx["c1"].pc = "idle"
    /\ tx["c1"].op = "resend"
    /\ tx["c1"].result = "not-found"
    /\ users # {}
    /\ tokens # {}
    /\ \A u \in users : u.email # tx["c1"].email

\* C16: in every committed state, whatever the interleaving of the clients'
\* transactions, each unverified account owns exactly one token.
C16_OneTokenPerUnverified ==
    \A u \in users :
        ~ u.isVerified => Cardinality({t \in tokens : t.user = u.id}) = 1

\* the tokens among rows whose owning account, among accounts, is verified
TokensOfVerified(accounts, rows) ==
    {t \in rows : \E u \in accounts : u.id = t.user /\ u.isVerified}

\* C20 as stated: no token exists whose owning account is verified.
C20_NoTokenOfVerified == TokensOfVerified(users, tokens) = {}

\* C20, amended: with the calls run one after the other, a token whose owner
\* is verified comes to exist only when a resendSignupVerificationToken call
\* for an already verified account commits, and is the token that call
\* created; such a call, the account having no live token, does go on past
\* the lookup of the user and creates one. verifyUser leaves no token of the
\* account it verifies.
C20_TokenOfVerifiedOnlyByResend ==
    [][\A p \in Clients :
        /\ (tx'[p] # tx[p]
             /\ TokensOfVerified(users', tokens') \ TokensOfVerified(users, tokens) # {})
             => /\ tx[p].pc = "resend_commit"
                /\ \E u \in tx[p].user : u \in users /\ u.isVerified
                /\ TokensOfVerified(users', tokens') \ TokensOfVerified(users, tokens)
                     = tx[p].insTokens
        /\ (/\ CallStarts(p, "resend")
            /\ \E u \in users : u.email = tx'[p].email /\ u.isVerified)
             => /\ tx'[p].pc = "resend_token"
                /\ tx'[p].user \subseteq users
        /\ (/\ tx[p].pc = "resend_create"
            /\ tx'[p].pc = "resend_send"
            /\ \E u \in tx[p].user : u.isVerified)
             => /\ Cardinality(tx'[p].insTokens) = 1
                /\ \A t \in tx'[p].insTokens : \A u \in tx[p].user : t.user = u.id
        /\ (FlowEnds(p, "verifyUser") /\ tx'[p].result = "ok")
             => \A u \in tx[p].user : \A t \in tokens' : t.user # u.id
      ]_vars

\* a resend for a verified account returned ok and its token is stored
C20_Witness ==
    /\ tx["c1"].pc = "idle"
    /\ tx["c1"].op = "resend"
    /\ tx["c1"].result = "ok"
    /\ TokensOfVerified(users, tokens) # {}

\* the step is a call of the repository of some class
StoreCall(op) == answer'.op = op /\ <<tables, answer, nextId>>' # <<tables, answer, nextId>>

\* the query that selects the row of the id, soft-deleted rows or not
ById(id, withDeleted) == [where |-> [id |-> id], withDeleted |-> withDeleted]

\* the query for every row from the first, soft-deleted rows or not
EveryRow(withDeleted) ==
    [where |-> AnyRow, skip |-> 0, withDeleted |-> withDeleted, take |-> FindLimit]

\* the ids of the rows of a table
RowIds(rows) == {rows[i].id : i \in 1..Len(rows)}

\* C12: save and remove called with an object that is not an instance of
\* the repository's entity class reject, and no table changes, even when a
\* row of the repository's table has the object's id; called with an
\* instance of the class they do not reject.
C12_ForeignEntityRejected ==
    [][\A op \in {"save", "remove"} :
        StoreCall(op) =>
          IF answer'.argument.class # answer'.target
          THEN answer'.thrown /\ tables' = tables
          ELSE ~ answer'.thrown
      ]_vars

\* remove was called with an instance of the other class under the id of a
\* live row of the repository's table, and rejected
C12_Witness ==
    /\ answer.op = "remove"
    /\ answer.thrown
    /\ answer.argument.class # answer.target
    /\ \E i \in 1..Len(tables[DefaultConnection][answer.target]) :
         LET row == tables[DefaultConnection][answer.target][i] IN
         row.id = answer.argument.id /\ row.deletedAt = "null"

\* C13: after remove of an entity whose row is in the table, findOne by its
\* id and find return the row only under withDeleted when the class's table
\* has a delete-date column, and under no option when it has none; and a
\* findOne call answers accordingly.
C13_RemoveSoftOrHard ==
    [][/\ (/\ StoreCall("remove")
            /\ ~ answer'.thrown
            /\ answer'.argument.id
                 \in RowIds(tables[DefaultConnection][answer'.target])) =>
             LET id == answer'.argument.id
                 after == tables'[DefaultConnection][answer'.target]
                 soft == answer'.target = "WithDeleteDate"
                 InPage(withDeleted) ==
                    LET page == typeormFindAndCount(after, EveryRow(withDeleted))[1]
                    IN id \in RowIds(page)
             IN /\ typeormFindOne(after, ById(id, FALSE)) = {}
                /\ ~ InPage(FALSE)
                /\ soft => /\ \E r \in typeormFindOne(after, ById(id, TRUE)) :
                                 r.id = id /\ r.deletedAt = "date"
                            /\ InPage(TRUE)
                /\ ~ soft => /\ typeormFindOne(after, ById(id, TRUE)) = {}
                              /\ ~ InPage(TRUE)
       /\ StoreCall("findOne") =>
             LET rows == tables[DefaultConnection][answer'.target]
                 id == answer'.argument.where.id
                 removed == \E i \in 1..Len(rows) :
                               rows[i].id = id /\ rows[i].deletedAt # "null"
             IN /\ answer'.target = "WithoutDeleteDate" => ~ removed
                /\ removed => (answer'.entity # {} <=> answer'.argument.withDeleted)
                /\ id \notin RowIds(rows) => answer'.entity = {}
      ]_vars

\* findOne under withDeleted returned an entity that remove had soft-deleted
C13_Witness ==
    /\ answer.op = "findOne"
    /\ answer.argument.withDeleted
    /\ \E e \in answer.entity : e.deletedAt = "date"

\* the ids of every row of every table
StoredIds ==
    UNION {RowIds(tables[connection][c]) :
             connection \in Connections, c \in EntityClasses}

\* C14: find returns at most FindLimit rows whatever take the query carries,
\* reports FindLimit as the limit, and reports as total the number of all the
\* rows the query selects, whatever the skip; the rows are the selected rows
\* from the skip on, FindLimit of them at most.
C14_FindIsCapped ==
    [][StoreCall("find") =>
         LET query == answer'.argument
             page == answer'.page
             selected == Selected(tables[DefaultConnection][answer'.target],
                                  query.where, query.withDeleted)
             count == Min(FindLimit, Max(0, Len(selected) - query.skip))
         IN /\ page.limit = FindLimit
            /\ Len(page.rows) <= FindLimit
            /\ page.total = Len(selected)
            /\ Len(page.rows) = count
            /\ page.rows = SubSeq(selected, query.skip + 1, query.skip + count)
      ]_vars

\* find was asked for more rows than the limit, of a table that has them,
\* and returned FindLimit rows and the count of them all
C14_Witness ==
    /\ answer.op = "find"
    /\ "take" \in DOMAIN answer.argument
    /\ answer.argument.take > FindLimit
    /\ answer.page.total > FindLimit
    /\ Len(answer.page.rows) = FindLimit

\* C18: create returns an entity whose id is the generated one, which is not
\* the payload's id and is the id of no row stored before, and whose other
\* fields are the payload's; the entity is stored as one new row, and
\* findOne by the returned id yields the payload's values. A findOne call
\* answers with the stored row of the id.
C18_CreateAssignsFreshId ==
    [][/\ StoreCall("create") =>
             LET payload == answer'.argument
                 target == answer'.target
                 before == tables[DefaultConnection][target]
                 after == tables'[DefaultConnection][target]
             IN /\ ~ answer'.thrown
                /\ \E entity \in answer'.entity :
                     /\ answer'.entity = {entity}
                     /\ entity.id = generateUniqueUUID(nextId)
                     /\ entity.id \notin StoredIds
                     /\ "id" \in DOMAIN payload => entity.id # payload.id
                     /\ \A k \in DOMAIN payload \ {"id"} : entity[k] = payload[k]
                     /\ Len(after) = Len(before) + 1
                     /\ \A i \in 1..Len(before) : after[i] = before[i]
                     /\ \E row \in typeormFindOne(after, ById(entity.id, FALSE)) :
                          \A k \in DOMAIN payload \ {"id"} : row[k] = payload[k]
       /\ StoreCall("findOne") =>
             LET rows == tables[DefaultConnection][answer'.target] IN
             \A entity \in answer'.entity :
                /\ entity.id = answer'.argument.where.id
                /\ \E i \in 1..Len(rows) :
                     EntityOf(answer'.target, rows[i]) = entity
      ]_vars

\* the second create, with a payload that carries an id of its own
C18_Witness ==
    /\ answer.op = "create"
    /\ "id" \in DOMAIN answer.argument
    /\ nextId = 3
    /\ \E entity \in answer.entity :
         /\ entity.id = generateUniqueUUID(2)
         /\ entity.name = answer.argument.name
    /\ Cardinality(StoredIds) = 2

\* C19: a call given a manager reads and writes the rows of that manager's
\* unit only, and a call given none those of the default connection only:
\* what findOne and find return is what the rows of that connection
\* determine, create, save and remove change the rows of that connection as
\* the call asks, and the rows of every other connection stay as they were.
C19_ManagerScopesTheCall ==
    [][\A op \in {"findOne", "find", "create", "save", "remove"} :
        StoreCall(op) =>
          LET manager == answer'.manager
              target == answer'.target
              used == IF manager \in Managers THEN manager ELSE DefaultConnection
              before == tables[used][target]
              after == tables'[used][target]
          IN /\ \A connection \in Connections \ {used} :
                   tables'[connection] = tables[connection]
             /\ op = "findOne" =>
                   /\ after = before
                   /\ answer'.entity =
                        {EntityOf(target, r) :
                           r \in typeormFindOne(before, answer'.argument)}
             /\ op = "find" =>
                   /\ after = before
                   /\ answer'.page.total =
                        Len(Selected(before, answer'.argument.where,
                                     answer'.argument.withDeleted))
                   /\ \A i \in 1..Len(answer'.page.rows) :
                        answer'.page.rows[i].id \in RowIds(before)
             /\ op = "create" =>
                   \E entity \in answer'.entity :
                     /\ entity.id \notin RowIds(before)
                     /\ entity.id \in RowIds(after)
             /\ (op = "save" /\ ~ answer'.thrown) =>
                   after = typeormSave(before, RowOf(answer'.argument))
             /\ (op = "remove" /\ ~ answer'.thrown) =>
                   after = typeormSoftRemove(before, RowOf(answer'.argument))
      ]_vars

\* findOne, given a manager, returned an entity that the unit holds and the
\* default connection does not, while the default connection holds another
C19_Witness ==
    /\ answer.op = "findOne"
    /\ answer.manager \in Managers
    /\ tables[DefaultConnection][answer.target] # <<>>
    /\ \E entity \in answer.entity :
         /\ entity.id \in RowIds(tables[answer.manager][answer.target])
         /\ entity.id \notin RowIds(tables[DefaultConnection][answer.target])

====
